---- MODULE Spec2Model ----
(***************************************************************************)
(* QnAHub backend: the question lifecycle (submission, clustering          *)
(* pipeline, answer resolution) and the session-scoped voting subsystem,   *)
(* as state machines over the MongoDB collections.  Every `await` of the   *)
(* source is a suspension point: one action per awaited database or oracle *)
(* call that can change or observe shared state.                           *)
(***************************************************************************)
EXTENDS Integers, Sequences, FiniteSets, Bags, TLC

VARIABLES
    raw_questions,             \* collection raw_questions: the status of each, in insertion order (_id = index)
    representative_questions,  \* collection representative_questions, in insertion order (_id = index)
    answers,                   \* collection answers, in insertion order (_id = index)
    likes,                     \* collection likes: a bag of (session_id, target_id, target_type)
    like_req,                  \* the like/unlike request handlers in flight (routers/likes.py)
    req,                       \* the submission/create-answer request handlers in flight
    pipe,                      \* the clustering pipeline runs, one per scheduler (server process)
    nreq,                      \* requests and pipeline runs started so far (bounds the exploration)
    last,                      \* the response of the request that completed last
    hist                       \* the last two requests that ran with no other request in flight

vars == <<raw_questions, representative_questions, answers, likes, like_req, req, pipe,
          nreq, last, hist>>

----------------------------------------------------------------------------
(* Bounds of the exploration *)

NumSessions == 2
NumHandlers == 2
MaxRequests == 3
MaxId == 2
MaxOps == 4
MaxSubmits == 2
NumRuns == 2
MaxRuns == 2

\* Program constants
SimilarityLimit == 100
PendingLimit == 100

Sessions == 1..NumSessions
Handlers == 1..NumHandlers
Runs == 1..NumRuns

----------------------------------------------------------------------------
(* bson.ObjectId and its string form.  A stored value keeps its            *)
(* representation: a query matches only a value of the same kind.          *)

Oid(n) == [kind |-> "oid", n |-> n]
StrId(n) == [kind |-> "str", n |-> n]
NoId == [kind |-> "none", n |-> 0]

\* str(ObjectId): the 24 hex digit string of the id
str(id) == [kind |-> "str", n |-> id.n]

\* ObjectId.is_valid: n = 0 stands for a string that is no 24 hex digit id
ObjectIdIsValid(v) == v.kind \in {"oid", "str"} /\ v.n >= 1

\* ObjectId(v), defined on the valid values only
ObjectId(v) == [kind |-> "oid", n |-> v.n]

TargetTypes == {"question", "answer"}

----------------------------------------------------------------------------
(* Collection queries *)

\* db[representative_questions].find_one({"_id": id}) is not None
RepExists(id) == id.kind = "oid" /\ id.n \in 1..Len(representative_questions)

\* db[answers].find_one({"_id": id}) is not None
AnswerExists(id) == id.kind = "oid" /\ id.n \in 1..Len(answers)

TargetExists(type, id) ==
    IF type = "question" THEN RepExists(id) ELSE AnswerExists(id)

TargetVotes(type, id) ==
    IF type = "question" THEN representative_questions[id.n].total_votes
    ELSE answers[id.n].total_votes

LikeDoc(s, id, type) == [session_id |-> s, target_id |-> id, target_type |-> type]

\* FindLike with the target_type of the query fixed to "answer"
FindLike_WrongType(s, id, type) == CopiesIn(LikeDoc(s, id, "answer"), likes) > 0

\* db[likes].find_one({session_id, target_id, target_type}) is not None
FindLike(s, id, type) == CopiesIn(LikeDoc(s, id, type), likes) > 0

\* number of Like documents referencing the target, whatever the session
LikeCount(type, id) ==
    LET S == {d \in BagToSet(likes) : d.target_type = type /\ d.target_id.n = id.n}
        RECURSIVE Sum(_)
        Sum(T) == IF T = {} THEN 0
                  ELSE LET d == CHOOSE x \in T : TRUE
                       IN CopiesIn(d, likes) + Sum(T \ {d})
    IN Sum(S)

\* number of Like documents of one session for the target
SessionLikes(s, type, id) ==
    CopiesIn(LikeDoc(s, Oid(id.n), type), likes) + CopiesIn(LikeDoc(s, StrId(id.n), type), likes)

----------------------------------------------------------------------------
(* Vote counters *)

SetVotes(type, id, v) ==
    IF type = "question"
    THEN /\ representative_questions' =
              [representative_questions EXCEPT ![id.n].total_votes = v]
         /\ UNCHANGED answers
    ELSE /\ answers' = [answers EXCEPT ![id.n].total_votes = v]
         /\ UNCHANGED representative_questions

\* update_one({"_id": id}, {"$inc": {"total_votes": 1}}): modified_count
IncrementMatches(type, id) == TargetExists(type, id)

\* DecrementMatches without the {"$gt": 0} condition
DecrementMatches_NoFloor(type, id) == TargetExists(type, id)

\* DecrementMatches with the condition {"$gt": 1}
DecrementMatches_OffByOne(type, id) ==
    TargetExists(type, id) /\ TargetVotes(type, id) > 1

\* update_one({"_id": id, "total_votes": {"$gt": 0}}, {"$inc": {"total_votes": -1}}):
\* modified_count
DecrementMatches(type, id) == TargetExists(type, id) /\ TargetVotes(type, id) > 0

----------------------------------------------------------------------------
(* Like / unlike request handlers *)

IdleLike == [op |-> "idle", pc |-> "idle", session_id |-> 0, target_id |-> NoId,
             target_type |-> "none", wrote |-> FALSE, solo |-> FALSE,
             votes_before |-> 0, likes_before |-> 0]

\* listing: the ids of the documents a listing request returned, in order
NoResponse == [op |-> "none", result |-> "none", wrote |-> FALSE, unacceptable |-> FALSE,
               similar |-> 0, status |-> "pending", listing |-> <<>>]

OthersIdle(h) == \A g \in Handlers \ {h} : like_req[g].op = "idle"

\* The handler slots are anonymous: a new request takes the first free one.
FirstFree(h) == like_req[h].op = "idle" /\ \A g \in 1..(h - 1) : like_req[g].op # "idle"

\* The handler returns or raises: the slot is free again, the response is recorded.
Respond(h, result, wrote) ==
    LET r == like_req[h]
        e == [op |-> r.op, session_id |-> r.session_id, target_id |-> r.target_id,
              target_type |-> r.target_type, result |-> result,
              votes_before |-> r.votes_before, likes_before |-> r.likes_before]
    IN /\ like_req' = [like_req EXCEPT ![h] = IdleLike]
       /\ last' = [NoResponse EXCEPT !.op = r.op, !.result = result, !.wrote = wrote]
       /\ hist' = IF r.solo
                  THEN (IF Len(hist) = 2 THEN <<hist[2], e>> ELSE Append(hist, e))
                  ELSE hist

\* routers/likes.py: the id conversion, the session lookup and the existence check
\* of like_* and unlike_*.
StartLike(h, op, s, type, qid) ==
    /\ FirstFree(h)
    /\ nreq < MaxRequests
    /\ nreq' = nreq + 1
    /\ UNCHANGED <<raw_questions, representative_questions, answers, likes, req, pipe>>
    /\ IF ~ObjectIdIsValid(qid)
       THEN /\ last' = [NoResponse EXCEPT !.op = op, !.result = "bad_request"]
            /\ UNCHANGED <<like_req, hist>>
       ELSE IF ~TargetExists(type, ObjectId(qid))
       THEN /\ last' = [NoResponse EXCEPT !.op = op, !.result = "not_found"]
            /\ UNCHANGED <<like_req, hist>>
       ELSE LET solo == OthersIdle(h)
                id == ObjectId(qid)
            IN /\ like_req' =
                    [g \in Handlers |->
                        IF g = h
                        THEN [op |-> op, pc |-> "check1", session_id |-> s,
                              target_id |-> id, target_type |-> type,
                              wrote |-> FALSE, solo |-> solo,
                              votes_before |-> IF solo THEN TargetVotes(type, id) ELSE 0,
                              likes_before |-> IF solo THEN SessionLikes(s, type, id) ELSE 0]
                        ELSE IF like_req[g].op = "idle" THEN like_req[g]
                        ELSE [like_req[g] EXCEPT !.solo = FALSE, !.votes_before = 0,
                                                 !.likes_before = 0]]
               /\ hist' = IF solo THEN hist ELSE <<>>
               /\ UNCHANGED last

\* What follows check_user_already_liked in safe_increment_* / safe_decrement_*.
AfterCheck(h, existing_like) ==
    LET r == like_req[h] IN
    IF r.op = "like"
    THEN IF existing_like
         THEN Respond(h, "rejected", r.wrote)
         ELSE /\ like_req' = [like_req EXCEPT ![h].pc = "create_like"]
              /\ UNCHANGED <<last, hist>>
    ELSE IF ~existing_like
         THEN Respond(h, "rejected", r.wrote)
         ELSE /\ like_req' = [like_req EXCEPT ![h].pc = "remove1"]
              /\ UNCHANGED <<last, hist>>

\* check_user_already_liked, first find_one: the id as given
Check1(h) ==
    LET r == like_req[h] IN
    /\ r.pc = "check1"
    /\ UNCHANGED <<raw_questions, representative_questions, answers, likes, req, pipe, nreq>>
    /\ IF FindLike(r.session_id, r.target_id, r.target_type)
       THEN AfterCheck(h, TRUE)
       ELSE /\ like_req' = [like_req EXCEPT ![h].pc = "check2"]
            /\ UNCHANGED <<last, hist>>

\* second find_one: the id as a string
Check2(h) ==
    LET r == like_req[h] IN
    /\ r.pc = "check2"
    /\ UNCHANGED <<raw_questions, representative_questions, answers, likes, req, pipe, nreq>>
    /\ IF FindLike(r.session_id, str(r.target_id), r.target_type)
       THEN AfterCheck(h, TRUE)
       ELSE /\ like_req' = [like_req EXCEPT ![h].pc = "check3"]
            /\ UNCHANGED <<last, hist>>

\* third find_one: the string converted back to an ObjectId
Check3(h) ==
    LET r == like_req[h] IN
    /\ r.pc = "check3"
    /\ UNCHANGED <<raw_questions, representative_questions, answers, likes, req, pipe, nreq>>
    /\ AfterCheck(h, FindLike(r.session_id, ObjectId(str(r.target_id)), r.target_type))

\* create_like: the Like document is stored with target_id as an ObjectId
CreateLike(h) ==
    LET r == like_req[h] IN
    /\ r.pc = "create_like"
    /\ likes' = likes (+) SetToBag({LikeDoc(r.session_id, ObjectId(str(r.target_id)),
                                            r.target_type)})
    /\ like_req' = [like_req EXCEPT ![h].pc = "increment", ![h].wrote = TRUE]
    /\ UNCHANGED <<raw_questions, representative_questions, answers, req, pipe, nreq,
                   last, hist>>

\* increment_representative_question_votes / increment_answer_votes
IncrementVotes(h) ==
    LET r == like_req[h] IN
    /\ r.pc = "increment"
    /\ UNCHANGED <<raw_questions, likes, req, pipe, nreq>>
    /\ IF IncrementMatches(r.target_type, r.target_id)
       THEN /\ SetVotes(r.target_type, r.target_id,
                        TargetVotes(r.target_type, r.target_id) + 1)
            /\ Respond(h, "accepted", TRUE)
       ELSE /\ UNCHANGED <<representative_questions, answers>>
            /\ Respond(h, "rejected", r.wrote)

\* delete_one with the given id form; deleted_count decides what follows
RemoveWith(h, id, next) ==
    LET r == like_req[h]
        d == LikeDoc(r.session_id, id, r.target_type)
    IN /\ UNCHANGED <<raw_questions, representative_questions, answers, req, pipe, nreq,
                      last, hist>>
       /\ IF CopiesIn(d, likes) > 0
          THEN /\ likes' = likes (-) SetToBag({d})
               /\ like_req' = [like_req EXCEPT ![h].pc = "decrement", ![h].wrote = TRUE]
          ELSE /\ UNCHANGED likes
               /\ like_req' = [like_req EXCEPT ![h].pc = next]

\* remove_like, first delete_one: the id as given
Remove1(h) ==
    /\ like_req[h].pc = "remove1"
    /\ RemoveWith(h, like_req[h].target_id, "remove2")

\* second delete_one: the id as a string
Remove2(h) ==
    /\ like_req[h].pc = "remove2"
    /\ RemoveWith(h, str(like_req[h].target_id), "remove3")

\* third delete_one: the string converted back to an ObjectId
Remove3(h) ==
    /\ like_req[h].pc = "remove3"
    /\ RemoveWith(h, ObjectId(str(like_req[h].target_id)), "decrement")

\* decrement_representative_question_votes / decrement_answer_votes
DecrementVotes(h) ==
    LET r == like_req[h] IN
    /\ r.pc = "decrement"
    /\ UNCHANGED <<raw_questions, likes, req, pipe, nreq>>
    /\ IF DecrementMatches(r.target_type, r.target_id)
       THEN /\ SetVotes(r.target_type, r.target_id,
                        TargetVotes(r.target_type, r.target_id) - 1)
            /\ Respond(h, "accepted", TRUE)
       ELSE /\ UNCHANGED <<representative_questions, answers>>
            /\ Respond(h, "rejected", r.wrote)

----------------------------------------------------------------------------
(* Text: a string is a sequence of characters *)

IsSpace(c) == c = " "

RECURSIVE lstrip(_)
lstrip(t) == IF t # <<>> /\ IsSpace(Head(t)) THEN lstrip(Tail(t)) ELSE t

RECURSIVE rstrip(_)
rstrip(t) ==
    IF t # <<>> /\ IsSpace(t[Len(t)]) THEN rstrip(SubSeq(t, 1, Len(t) - 1)) ELSE t

\* str.strip()
strip(t) == rstrip(lstrip(t))

\* str.startswith(prefix)
startswith(t, prefix) == Len(t) >= Len(prefix) /\ SubSeq(t, 1, Len(prefix)) = prefix

Acceptable == <<"jeok", "hap">>
Unacceptable == <<"bu", "jeok", "hap">>

\* The oracle call raised
OracleError == <<"ERROR">>

\* What the validation oracle may answer
ValidatorReplies ==
    { Acceptable,
      Unacceptable \o <<".", " ", "x">>,
      <<" ">> \o Unacceptable \o <<".">>,
      <<"x">>,
      <<>>,
      OracleError }

\* validate_question_content rejecting when the oracle call raised or the reply has
\* neither token
validate_question_content_FailsClosed(reply) ==
    IF reply = OracleError THEN FALSE
    ELSE LET result_text == strip(reply)
         IN IF startswith(result_text, Acceptable) THEN TRUE
            ELSE FALSE

\* validate_question_content testing `"jeok hap" in result_text` instead of startswith
validate_question_content_Substring(reply) ==
    IF reply = OracleError THEN TRUE
    ELSE LET result_text == strip(reply)
         IN IF \E i \in 1..Len(result_text) :
                   startswith(SubSeq(result_text, i, Len(result_text)), Acceptable)
            THEN TRUE
            ELSE IF startswith(result_text, Unacceptable) THEN FALSE
            ELSE TRUE

\* validate_question_content: the accepted flag of its result
validate_question_content(reply) ==
    IF reply = OracleError THEN TRUE
    ELSE LET result_text == strip(reply)
         IN IF startswith(result_text, Acceptable) THEN TRUE
            ELSE IF startswith(result_text, Unacceptable) THEN FALSE
            ELSE TRUE

\* validate_question_content: the reason of its result
validation_reason(reply) ==
    IF reply = OracleError THEN "error"
    ELSE LET result_text == strip(reply)
         IN IF startswith(result_text, Acceptable) THEN "acceptable"
            ELSE IF startswith(result_text, Unacceptable) THEN "rejected"
            ELSE "undecided"

----------------------------------------------------------------------------
(* Submission and create-answer request handlers *)

\* nraw: how many raw questions were stored when the cascade last looked its ids up
IdleReq == [op |-> "idle", pc |-> "idle", force |-> FALSE, unacceptable |-> FALSE,
            candidates |-> 0, rq_id |-> NoId, raw_ids_to_update |-> <<>>,
            wrote |-> FALSE, status |-> "pending", reason |-> "none", nraw |-> 0]

FirstFreeReq(h) == req[h].op = "idle" /\ \A g \in 1..(h - 1) : req[g].op # "idle"

\* The handler returns or raises: the slot is free again, the response is recorded.
RespondReq(h, result, wrote) ==
    /\ req' = [req EXCEPT ![h] = IdleReq]
    /\ last' = [NoResponse EXCEPT !.op = req[h].op, !.result = result, !.wrote = wrote,
                                  !.unacceptable = req[h].unacceptable,
                                  !.status = req[h].status]

\* The values of RawQuestionStatus
RawQuestionStatus == {"pending", "rejected", "represented", "answered"}

\* POST /questions/raw arrives: the body is a RawQuestionCreate, whose status field
\* the client may set; force is the query parameter
StartSubmit(h, force, status) ==
    /\ FirstFreeReq(h)
    /\ nreq < MaxOps
    /\ nreq' = nreq + 1
    /\ req' = [req EXCEPT ![h] = [IdleReq EXCEPT !.op = "submit", !.pc = "validate",
                                                 !.force = force, !.status = status]]
    /\ UNCHANGED <<raw_questions, representative_questions, answers, likes, like_req,
                   pipe, last, hist>>

\* Validate running the similarity stage whatever the force flag
Validate_IgnoresForce(h, reply) ==
    /\ req[h].pc = "validate"
    /\ UNCHANGED <<raw_questions, representative_questions, answers, likes, like_req,
                   pipe, nreq, hist>>
    /\ LET is_valid == validate_question_content(reply)
           r == [req[h] EXCEPT !.unacceptable = startswith(strip(reply), Unacceptable),
                               !.reason = validation_reason(reply)]
       IN IF ~is_valid
          THEN /\ req' = [req EXCEPT ![h] = IdleReq]
               /\ last' = [NoResponse EXCEPT !.op = "submit", !.result = "invalid_question",
                                             !.wrote = r.wrote,
                                             !.unacceptable = r.unacceptable]
          ELSE /\ req' = [req EXCEPT ![h] = [r EXCEPT !.pc = "similar_fetch"]]
               /\ UNCHANGED last

\* Validate storing the question it rejects, with status REJECTED
Validate_StoresRejected(h, reply) ==
    /\ req[h].pc = "validate"
    /\ UNCHANGED <<representative_questions, answers, likes, like_req, pipe, nreq, hist>>
    /\ IF ~validate_question_content(reply)
       THEN /\ raw_questions' = Append(raw_questions, "rejected")
            /\ RespondReq(h, "invalid_question", TRUE)
       ELSE /\ req' = [req EXCEPT ![h].pc =
                         IF req[h].force THEN "create" ELSE "similar_fetch"]
            /\ UNCHANGED <<raw_questions, last>>

\* submit_or_check_raw_question, step 1: the validation stage.  `unacceptable`
\* records that the stripped reply begins with the "unacceptable" token.
Validate(h, reply) ==
    /\ req[h].pc = "validate"
    /\ UNCHANGED <<raw_questions, representative_questions, answers, likes, like_req,
                   pipe, nreq, hist>>
    /\ LET is_valid == validate_question_content(reply)
           r == [req[h] EXCEPT !.unacceptable = startswith(strip(reply), Unacceptable),
                               !.reason = validation_reason(reply)]
       IN IF ~is_valid
          THEN /\ req' = [req EXCEPT ![h] = IdleReq]
               /\ last' = [NoResponse EXCEPT !.op = "submit", !.result = "invalid_question",
                                             !.wrote = r.wrote,
                                             !.unacceptable = r.unacceptable]
          ELSE /\ req' = [req EXCEPT ![h] =
                            [r EXCEPT !.pc = IF r.force THEN "create" ELSE "similar_fetch"]]
               /\ UNCHANGED last

\* RawQuestionCreate(...).status: the value passed to the constructor, the default
\* PENDING when none is passed
RawQuestionCreate(status) == IF status = "default" THEN "pending" ELSE status

\* CreateRaw inserting the request body as it came, status included
CreateRaw_StoresBody(h) ==
    /\ req[h].pc = "create"
    /\ raw_questions' = Append(raw_questions, RawQuestionCreate(req[h].status))
    /\ RespondReq(h, "new_question_submitted", TRUE)
    /\ UNCHANGED <<representative_questions, answers, likes, like_req, pipe, nreq, hist>>

\* step 3: final_question_data is built from content and author_id only, so its
\* status is the default; create_raw_question inserts it
CreateRaw(h) ==
    /\ req[h].pc = "create"
    /\ raw_questions' = Append(raw_questions, RawQuestionCreate("default"))
    /\ RespondReq(h, "new_question_submitted", TRUE)
    /\ UNCHANGED <<representative_questions, answers, likes, like_req, pipe, nreq, hist>>

----------------------------------------------------------------------------
(* Similarity stage *)

\* str.lower(), on the letters the replies use
lower(t) == [i \in 1..Len(t) |-> IF t[i] = "N" THEN "n" ELSE t[i]]

None == <<"n", "o", "n", "e">>

\* The 24 hex digits of an ObjectId, as text
hex(id) == <<ToString(id.n)>>

\* What the similarity oracle may answer
SimilarityReplies ==
    { <<>>, OracleError, <<"N", "o", "n", "e">>, None, <<"x">>, <<" ", "1", " ">> }
        \cup { hex(Oid(n)) : n \in 1..MaxId }

\* GeminiClient.generate_text: the stripped text, "" when the call raised
generate_text(reply) == IF reply = OracleError THEN <<>> ELSE strip(reply)

\* crud.get_all_rep_questions_for_similarity_check(db, limit): the ids of the
\* first `limit` representative questions
get_all_rep_questions_for_similarity_check(limit) ==
    {n \in 1..Len(representative_questions) : n <= limit}

\* find_most_similar_question returning the question the reply names without
\* looking it up among the candidates
find_most_similar_question_NoLookup(existing_questions, reply) ==
    LET ai_response_text == generate_text(reply)
    IN IF ai_response_text = <<>> \/ lower(ai_response_text) = None THEN 0
       ELSE LET most_similar_id == strip(ai_response_text)
                hits == {n \in 1..MaxId : hex(Oid(n)) = most_similar_id}
            IN IF hits = {} THEN 0 ELSE CHOOSE n \in hits : TRUE

\* find_most_similar_question after the fetch: the id of the candidate the reply
\* names, 0 for None
find_most_similar_question(existing_questions, reply) ==
    LET ai_response_text == generate_text(reply)
    IN IF ai_response_text = <<>> \/ lower(ai_response_text) = None THEN 0
       ELSE LET most_similar_id == strip(ai_response_text)
                hits == {n \in existing_questions : hex(Oid(n)) = most_similar_id}
            IN IF hits = {} THEN 0 ELSE CHOOSE n \in hits : TRUE

\* SimilarFetch going on to the oracle call also when no candidate exists
SimilarFetch_AlwaysAsks(h) ==
    /\ req[h].pc = "similar_fetch"
    /\ LET existing_questions == get_all_rep_questions_for_similarity_check(SimilarityLimit)
       IN req' = [req EXCEPT ![h].pc = "similar_oracle",
                             ![h].candidates = Cardinality(existing_questions)]
    /\ UNCHANGED <<raw_questions, representative_questions, answers, likes, like_req,
                   pipe, nreq, last, hist>>

\* SimilarFetch raising when no candidate exists, which the handler does not catch
SimilarFetch_RaisesOnEmpty(h) ==
    /\ req[h].pc = "similar_fetch"
    /\ UNCHANGED <<raw_questions, representative_questions, answers, likes, like_req,
                   pipe, nreq, hist>>
    /\ LET existing_questions == get_all_rep_questions_for_similarity_check(SimilarityLimit)
       IN IF existing_questions = {}
          THEN RespondReq(h, "internal_error", req[h].wrote)
          ELSE /\ req' = [req EXCEPT ![h].pc = "similar_oracle",
                                     ![h].candidates = Cardinality(existing_questions)]
               /\ UNCHANGED last

\* find_most_similar_question, the candidate fetch
SimilarFetch(h) ==
    /\ req[h].pc = "similar_fetch"
    /\ LET existing_questions == get_all_rep_questions_for_similarity_check(SimilarityLimit)
       IN req' = [req EXCEPT ![h].pc = IF existing_questions = {} THEN "create"
                                        ELSE "similar_oracle",
                             ![h].candidates = Cardinality(existing_questions)]
    /\ UNCHANGED <<raw_questions, representative_questions, answers, likes, like_req,
                   pipe, nreq, last, hist>>

\* SimilarOracle going on to step 3 also when a similar question was found
SimilarOracle_StoresAnyway(h, reply) ==
    /\ req[h].pc = "similar_oracle"
    /\ UNCHANGED <<raw_questions, representative_questions, answers, likes, like_req,
                   pipe, nreq, last, hist>>
    /\ req' = [req EXCEPT ![h].pc = "create", ![h].candidates = 0]

\* find_most_similar_question, the oracle call and its parse; then step 2 and 3
\* of submit_or_check_raw_question
SimilarOracle(h, reply) ==
    /\ req[h].pc = "similar_oracle"
    /\ UNCHANGED <<raw_questions, representative_questions, answers, likes, like_req,
                   pipe, nreq, hist>>
    /\ LET similar_question == find_most_similar_question(1..req[h].candidates, reply)
       IN IF similar_question # 0
          THEN /\ req' = [req EXCEPT ![h] = IdleReq]
               /\ last' = [NoResponse EXCEPT !.op = "submit",
                                             !.result = "similar_question_found",
                                             !.wrote = req[h].wrote,
                                             !.similar = similar_question]
          ELSE /\ req' = [req EXCEPT ![h].pc = "create", ![h].candidates = 0]
               /\ UNCHANGED last

----------------------------------------------------------------------------
(* Answer resolution *)

\* db[answers].find_one({"representative_question_id": id}) is not None
get_answer_for_question(id) ==
    \E i \in 1..Len(answers) : answers[i].representative_question_id = id

\* raw questions whose _id (an ObjectId) is among ids
RawMatching(ids) ==
    {n \in 1..Len(raw_questions) : \E i \in 1..Len(ids) : ids[i] = Oid(n)}

\* [str(oid) for oid in ids]
StrIds(ids) == [i \in 1..Len(ids) |-> str(ids[i])]

\* [ObjectId(id_str) for id_str in ids]
ObjectIds(ids) == [i \in 1..Len(ids) |-> ObjectId(ids[i])]

\* POST /answers arrives; get_representative_question_by_id
StartAnswer(h, id) ==
    /\ FirstFreeReq(h)
    /\ nreq < MaxOps
    /\ nreq' = nreq + 1
    /\ UNCHANGED <<raw_questions, representative_questions, answers, likes, like_req,
                   pipe, hist>>
    /\ IF ~RepExists(id)
       THEN /\ last' = [NoResponse EXCEPT !.op = "answer", !.result = "not_found"]
            /\ UNCHANGED req
       ELSE /\ req' = [req EXCEPT ![h] = [IdleReq EXCEPT !.op = "answer",
                                            !.pc = "check_answer", !.rq_id = id]]
            /\ UNCHANGED last

\* CheckAnswer going on to the insert whether or not an answer exists
CheckAnswer_NoCheck(h) ==
    /\ req[h].pc = "check_answer"
    /\ req' = [req EXCEPT ![h].pc = "insert_answer"]
    /\ UNCHANGED <<raw_questions, representative_questions, answers, likes, like_req,
                   pipe, nreq, last, hist>>

\* create_answer: get_answer_for_question
CheckAnswer(h) ==
    /\ req[h].pc = "check_answer"
    /\ UNCHANGED <<raw_questions, representative_questions, answers, likes, like_req,
                   pipe, nreq, hist>>
    /\ IF get_answer_for_question(req[h].rq_id)
       THEN RespondReq(h, "answer_exists", req[h].wrote)
       ELSE /\ req' = [req EXCEPT ![h].pc = "insert_answer"]
            /\ UNCHANGED last

\* InsertAnswer setting the status first and leaving the insert for later
InsertAnswer_StatusFirst(h) ==
    /\ req[h].pc = "insert_answer"
    /\ representative_questions' =
         [representative_questions EXCEPT ![req[h].rq_id.n].status = "answered"]
    /\ req' = [req EXCEPT ![h].pc = "update_rep", ![h].wrote = TRUE]
    /\ UNCHANGED <<raw_questions, answers, likes, like_req, pipe, nreq, last, hist>>

\* create_answer_for_question, step 1: insert_one into answers
InsertAnswer(h) ==
    /\ req[h].pc = "insert_answer"
    /\ answers' = Append(answers, [representative_question_id |-> ObjectId(str(req[h].rq_id)),
                                   total_votes |-> 0])
    /\ req' = [req EXCEPT ![h].pc = "update_rep", ![h].wrote = TRUE]
    /\ UNCHANGED <<raw_questions, representative_questions, likes, like_req, pipe, nreq,
                   last, hist>>

\* step 2: update_one sets the representative question's status to answered
UpdateRep(h) ==
    /\ req[h].pc = "update_rep"
    /\ representative_questions' =
         [representative_questions EXCEPT ![req[h].rq_id.n].status = "answered"]
    /\ req' = [req EXCEPT ![h].pc = "find_rep"]
    /\ UNCHANGED <<raw_questions, answers, likes, like_req, pipe, nreq, last, hist>>

\* step 3: find_one reads the representative question's raw_question_ids
FindRep(h) ==
    /\ req[h].pc = "find_rep"
    /\ UNCHANGED <<raw_questions, representative_questions, answers, likes, like_req,
                   pipe, nreq, hist>>
    /\ LET raw_ids_to_update == representative_questions[req[h].rq_id.n].raw_question_ids
       IN IF raw_ids_to_update = <<>>
          THEN RespondReq(h, "created", TRUE)
          ELSE /\ req' = [req EXCEPT ![h].pc = "find_raw1",
                                     ![h].raw_ids_to_update = raw_ids_to_update]
               /\ UNCHANGED last

\* find with the ids as stored
FindRaw1(h) ==
    /\ req[h].pc = "find_raw1"
    /\ req' = [req EXCEPT ![h].pc =
                 IF RawMatching(req[h].raw_ids_to_update) = {} THEN "find_raw2"
                 ELSE "update_raw",
                          ![h].nraw = Len(raw_questions)]
    /\ UNCHANGED <<raw_questions, representative_questions, answers, likes, like_req,
                   pipe, nreq, last, hist>>

\* find with the ids as strings
FindRaw2(h) ==
    /\ req[h].pc = "find_raw2"
    /\ LET raw_ids_as_str == StrIds(req[h].raw_ids_to_update)
       IN req' = [req EXCEPT ![h].pc =
                    IF RawMatching(raw_ids_as_str) = {} THEN "find_raw3" ELSE "update_raw",
                             ![h].raw_ids_to_update = raw_ids_as_str,
                             ![h].nraw = Len(raw_questions)]
    /\ UNCHANGED <<raw_questions, representative_questions, answers, likes, like_req,
                   pipe, nreq, last, hist>>

\* FindRaw3 keeping the strings for the update whatever the find matched
FindRaw3_KeepsStrings(h) ==
    /\ req[h].pc = "find_raw3"
    /\ req' = [req EXCEPT ![h].pc = "update_raw", ![h].nraw = Len(raw_questions)]
    /\ UNCHANGED <<raw_questions, representative_questions, answers, likes, like_req,
                   pipe, nreq, last, hist>>

\* find with the strings converted to ObjectIds; the update uses the ObjectIds when
\* this find matched, the strings otherwise
FindRaw3(h) ==
    /\ req[h].pc = "find_raw3"
    /\ LET raw_ids_as_objectid == ObjectIds(req[h].raw_ids_to_update)
       IN req' = [req EXCEPT ![h].pc = "update_raw",
                             ![h].raw_ids_to_update =
                                 IF RawMatching(raw_ids_as_objectid) = {}
                                 THEN req[h].raw_ids_to_update
                                 ELSE raw_ids_as_objectid,
                             ![h].nraw = Len(raw_questions)]
    /\ UNCHANGED <<raw_questions, representative_questions, answers, likes, like_req,
                   pipe, nreq, last, hist>>

\* update_many sets the matched raw questions' status to ANSWERED
UpdateRaw(h) ==
    /\ req[h].pc = "update_raw"
    /\ raw_questions' =
         [n \in 1..Len(raw_questions) |->
             IF n \in RawMatching(req[h].raw_ids_to_update) THEN "answered"
             ELSE raw_questions[n]]
    /\ RespondReq(h, "created", TRUE)
    /\ UNCHANGED <<representative_questions, answers, likes, like_req, pipe, nreq, hist>>

----------------------------------------------------------------------------
(* Listing of the representative questions *)

\* The orders in which a cursor sorted by total_votes descending can return the
\* documents S: documents with equal votes come in any order
SortedByVotes(S) ==
    {p \in [1..Cardinality(S) -> S] :
        /\ \A i, j \in 1..Cardinality(S) : i # j => p[i] # p[j]
        /\ \A i, j \in 1..Cardinality(S) :
              i < j => representative_questions[p[i]].total_votes
                         >= representative_questions[p[j]].total_votes}

\* cursor.skip(skip).limit(limit)
Page(p, skip, limit) ==
    SubSeq(p, skip + 1, IF skip + limit < Len(p) THEN skip + limit ELSE Len(p))

\* get_all_representative_questions without the status filter
get_all_representative_questions_NoFilter(skip, limit) ==
    {Page(p, skip, limit) : p \in SortedByVotes(1..Len(representative_questions))}

\* get_all_representative_questions: find({"status": "unanswered"})
\* .sort("total_votes", -1).skip(skip).limit(limit); the results it can return
get_all_representative_questions(skip, limit) ==
    {Page(p, skip, limit) :
        p \in SortedByVotes({Q \in 1..Len(representative_questions) :
                                representative_questions[Q].status = "unanswered"})}

\* GET /questions/representative
get_representative_questions(skip, limit) ==
    /\ \E questions \in get_all_representative_questions(skip, limit) :
          last' = [NoResponse EXCEPT !.op = "list", !.result = "ok",
                                     !.listing = questions]
    /\ UNCHANGED <<raw_questions, representative_questions, answers, likes, like_req,
                   req, pipe, nreq, hist>>

----------------------------------------------------------------------------
(* Clustering pipeline *)

\* outcome: how the last run ended ("none" while a run is under way or before the first)
\* raised: whether the last run ended by raising to the scheduler
IdlePipe == [pc |-> "idle", pending_questions |-> {}, new_rep_questions_to_insert |-> <<>>,
             representative_questions_data |-> <<>>, outcome |-> "none", raised |-> FALSE]

\* get_raw_questions_by_status(PENDING, limit): the first `limit` pending questions
get_raw_questions_by_status(status, limit) ==
    {n \in 1..Len(raw_questions) :
        /\ raw_questions[n] = status
        /\ Cardinality({m \in 1..n : raw_questions[m] = status}) <= limit}

\* The id strings a group of the oracle's reply may list: 0 is no valid ObjectId
OracleIds == {StrId(n) : n \in 0..MaxId}

\* related_question_ids of one group
OracleGroups ==
    {<<>>} \cup {<<a>> : a \in OracleIds} \cup {<<a, b>> : a, b \in OracleIds}

\* The parsed reply, a list of groups: no group, one group of any shape, or two
\* groups of one valid id each
OracleData ==
    {<<>>} \cup {<<g>> : g \in OracleGroups}
        \cup {<<(<<a>>), (<<b>>)>> : a, b \in {x \in OracleIds : ObjectIdIsValid(x)}}

\* the loop over related_question_ids: the ids that convert to an ObjectId, in order
RECURSIVE related_raw_ids(_)
related_raw_ids(ids) ==
    IF ids = <<>> THEN <<>>
    ELSE IF ObjectIdIsValid(Head(ids))
         THEN <<ObjectId(Head(ids))>> \o related_raw_ids(Tail(ids))
         ELSE related_raw_ids(Tail(ids))

\* new_rep_question leaving a group's id list empty when one of its ids is invalid
new_rep_question_DropsOnInvalid(ids) ==
    [total_votes |-> 0, status |-> "unanswered",
     raw_question_ids |->
         IF \E i \in 1..Len(ids) : ~ObjectIdIsValid(ids[i])
         THEN <<>> ELSE StrIds(related_raw_ids(ids))]

\* RepresentativeQuestionInDB(title, raw_question_ids).model_dump(by_alias=True):
\* the PyObjectId serializer writes every id of raw_question_ids as a string
new_rep_question(ids) ==
    [total_votes |-> 0, status |-> "unanswered",
     raw_question_ids |-> StrIds(related_raw_ids(ids))]

\* run_question_processing_pipeline, steps 1 and 2: the fetch of the pending
\* questions; a run that finds none returns at once and changes nothing
PipeFetch(r) ==
    /\ pipe[r].pc = "idle"
    /\ LET pending_questions ==
             get_raw_questions_by_status("pending", PendingLimit)
       IN /\ pending_questions # {}
          /\ pipe' = [pipe EXCEPT ![r] =
                       [IdlePipe EXCEPT !.pc = "oracle",
                                        !.pending_questions = pending_questions]]
    /\ UNCHANGED <<raw_questions, representative_questions, answers, likes, like_req,
                   req, last, hist>>

\* The scheduler starts a run, counted in the budget of operations
PipeStart(r) ==
    /\ nreq < MaxOps
    /\ nreq' = nreq + 1
    /\ PipeFetch(r)

\* PipeOracleFails marking the fetched questions REPRESENTED all the same
PipeOracleFails_UpdatesStatus(r) ==
    /\ pipe[r].pc = "oracle"
    /\ raw_questions' =
         [n \in 1..Len(raw_questions) |->
             IF n \in pipe[r].pending_questions THEN "represented" ELSE raw_questions[n]]
    /\ pipe' = [pipe EXCEPT ![r] = [IdlePipe EXCEPT !.outcome = "failed"]]
    /\ UNCHANGED <<representative_questions, answers, likes, like_req, req, nreq,
                   last, hist>>

\* step 4, the oracle call raised or its reply is no JSON: the run ends
PipeOracleFails(r) ==
    /\ pipe[r].pc = "oracle"
    /\ pipe' = [pipe EXCEPT ![r] = [IdlePipe EXCEPT !.outcome = "failed"]]
    /\ UNCHANGED <<raw_questions, representative_questions, answers, likes, like_req,
                   req, nreq, last, hist>>

\* step 4, the reply parses; save_representative_questions_and_update_raw_status
\* up to insert_many
PipeOracle(r, data) ==
    /\ pipe[r].pc = "oracle"
    /\ pipe' = [pipe EXCEPT ![r] =
               IF data = <<>> THEN [IdlePipe EXCEPT !.outcome = "no_groups"]
               ELSE [pipe[r] EXCEPT !.pc = "insert",
                                 !.representative_questions_data = data,
                                 !.new_rep_questions_to_insert =
                                     [i \in 1..Len(data) |-> new_rep_question(data[i])]]]
    /\ UNCHANGED <<raw_questions, representative_questions, answers, likes, like_req,
                   req, nreq, last, hist>>

\* insert_many of the new representative questions
PipeInsert(r) ==
    /\ pipe[r].pc = "insert"
    /\ representative_questions' =
         representative_questions \o pipe[r].new_rep_questions_to_insert
    /\ pipe' = [pipe EXCEPT ![r].pc = "update", ![r].new_rep_questions_to_insert = <<>>]
    /\ UNCHANGED <<raw_questions, answers, likes, like_req, req, nreq, last, hist>>

\* PipeUpdate writing ANSWERED instead of REPRESENTED
PipeUpdate_MarksAnswered(r) ==
    /\ pipe[r].pc = "update"
    /\ raw_questions' =
         [n \in 1..Len(raw_questions) |->
             IF n \in pipe[r].pending_questions THEN "answered" ELSE raw_questions[n]]
    /\ pipe' = [pipe EXCEPT ![r] = [IdlePipe EXCEPT !.outcome = "saved"]]
    /\ UNCHANGED <<representative_questions, answers, likes, like_req, req, nreq,
                   last, hist>>

\* update_many sets the fetched raw questions' status to REPRESENTED
PipeUpdate(r) ==
    /\ pipe[r].pc = "update"
    /\ raw_questions' =
         [n \in 1..Len(raw_questions) |->
             IF n \in pipe[r].pending_questions THEN "represented" ELSE raw_questions[n]]
    /\ pipe' = [pipe EXCEPT ![r] = [IdlePipe EXCEPT !.outcome = "saved"]]
    /\ UNCHANGED <<representative_questions, answers, likes, like_req, req, nreq,
                   last, hist>>

\* update_many raises a storage error: it leaves save_... and is caught by the
\* `except Exception` of the run, which prints it and returns
PipeUpdateFails(r) ==
    /\ pipe[r].pc = "update"
    /\ pipe' = [pipe EXCEPT ![r] = [IdlePipe EXCEPT !.outcome = "storage_error",
                                                    !.raised = FALSE]]
    /\ UNCHANGED <<raw_questions, representative_questions, answers, likes, like_req,
                   req, nreq, last, hist>>

----------------------------------------------------------------------------
(* The question lifecycle: empty collections at start.  One server process, *)
(* whose scheduler runs the interval job one instance at a time: run 1.     *)

Init ==
    /\ raw_questions = <<>>
    /\ representative_questions = <<>>
    /\ answers = <<>>
    /\ likes = EmptyBag
    /\ like_req = [h \in Handlers |-> IdleLike]
    /\ req = [h \in Handlers |-> IdleReq]
    /\ pipe = [r \in Runs |-> IdlePipe]
    /\ nreq = 0
    /\ last = NoResponse
    /\ hist = <<>>

Next ==
    \/ \E h \in Handlers, force \in BOOLEAN : StartSubmit(h, force, "pending")
    \/ \E h \in Handlers, reply \in ValidatorReplies : Validate(h, reply)
    \/ \E h \in Handlers : SimilarFetch(h)
    \/ \E h \in Handlers, reply \in SimilarityReplies : SimilarOracle(h, reply)
    \/ \E h \in Handlers : CreateRaw(h)
    \/ \E h \in Handlers, n \in 1..MaxId : StartAnswer(h, Oid(n))
    \/ \E h \in Handlers : CheckAnswer(h)
    \/ \E h \in Handlers : InsertAnswer(h)
    \/ \E h \in Handlers : UpdateRep(h)
    \/ \E h \in Handlers : FindRep(h)
    \/ \E h \in Handlers : FindRaw1(h)
    \/ \E h \in Handlers : FindRaw2(h)
    \/ \E h \in Handlers : FindRaw3(h)
    \/ \E h \in Handlers : UpdateRaw(h)
    \/ PipeStart(1)
    \/ PipeOracleFails(1)
    \/ \E data \in OracleData : PipeOracle(1, data)
    \/ PipeInsert(1)
    \/ PipeUpdate(1)

Spec == Init /\ [][Next]_vars

----------------------------------------------------------------------------
(* The voting subsystem on its own: one answered representative question   *)
(* and its answer exist, no vote has been cast.                            *)

VoteInit ==
    /\ raw_questions = <<"answered">>
    /\ representative_questions =
         <<[total_votes |-> 0, status |-> "answered", raw_question_ids |-> <<StrId(1)>>]>>
    /\ answers = <<[representative_question_id |-> Oid(1), total_votes |-> 0]>>
    /\ likes = EmptyBag
    /\ like_req = [h \in Handlers |-> IdleLike]
    /\ req = [h \in Handlers |-> IdleReq]
    /\ pipe = [r \in Runs |-> IdlePipe]
    /\ nreq = 0
    /\ last = NoResponse
    /\ hist = <<>>

VoteNext ==
    \/ \E h \in Handlers, op \in {"like", "unlike"}, s \in Sessions,
          type \in TargetTypes, n \in 0..MaxId :
          StartLike(h, op, s, type, StrId(n))
    \/ \E h \in Handlers : Check1(h)
    \/ \E h \in Handlers : Check2(h)
    \/ \E h \in Handlers : Check3(h)
    \/ \E h \in Handlers : CreateLike(h)
    \/ \E h \in Handlers : IncrementVotes(h)
    \/ \E h \in Handlers : Remove1(h)
    \/ \E h \in Handlers : Remove2(h)
    \/ \E h \in Handlers : Remove3(h)
    \/ \E h \in Handlers : DecrementVotes(h)

SpecVote == VoteInit /\ [][VoteNext]_vars

----------------------------------------------------------------------------
(* The submission flow on its own: up to MaxId representative questions,   *)
(* all made from one raw question by earlier pipeline runs, already exist. *)

SubmitInit ==
    /\ \E k \in 0..MaxId :
          /\ raw_questions = IF k = 0 THEN <<>> ELSE <<"represented">>
          /\ representative_questions =
                [i \in 1..k |-> [total_votes |-> 0, status |-> "unanswered",
                                 raw_question_ids |-> <<StrId(1)>>]]
    /\ answers = <<>>
    /\ likes = EmptyBag
    /\ like_req = [h \in Handlers |-> IdleLike]
    /\ req = [h \in Handlers |-> IdleReq]
    /\ pipe = [r \in Runs |-> IdlePipe]
    /\ nreq = 0
    /\ last = NoResponse
    /\ hist = <<>>

SubmitNext ==
    \/ \E h \in Handlers, force \in BOOLEAN, status \in RawQuestionStatus :
          nreq < MaxSubmits /\ StartSubmit(h, force, status)
    \/ \E h \in Handlers, reply \in ValidatorReplies : Validate(h, reply)
    \/ \E h \in Handlers : SimilarFetch(h)
    \/ \E h \in Handlers, reply \in SimilarityReplies : SimilarOracle(h, reply)
    \/ \E h \in Handlers : CreateRaw(h)

SpecSubmit == SubmitInit /\ [][SubmitNext]_vars

----------------------------------------------------------------------------
(* The pipeline under a scheduler that never stops: submissions are        *)
(* bounded, the interval job fires for ever.  The job is weakly fair, so    *)
(* are the database calls of a run; the oracle's reply parses infinitely    *)
(* often when it is asked infinitely often.                                 *)

\* The interval job fires (main.py): a run outside the budget of operations
PipeTick(r) == PipeFetch(r) /\ UNCHANGED nreq

LiveNext ==
    \/ \E h \in Handlers, force \in BOOLEAN :
          nreq < MaxSubmits /\ StartSubmit(h, force, "pending")
    \/ \E h \in Handlers, reply \in ValidatorReplies : Validate(h, reply)
    \/ \E h \in Handlers : SimilarFetch(h)
    \/ \E h \in Handlers, reply \in SimilarityReplies : SimilarOracle(h, reply)
    \/ \E h \in Handlers : CreateRaw(h)
    \/ PipeTick(1)
    \/ PipeOracleFails(1)
    \/ \E data \in OracleData : PipeOracle(1, data)
    \/ PipeInsert(1)
    \/ PipeUpdate(1)

SpecLive ==
    /\ Init
    /\ [][LiveNext]_vars
    /\ WF_vars(PipeTick(1))
    /\ WF_vars(PipeInsert(1))
    /\ WF_vars(PipeUpdate(1))
    /\ SF_vars(\E data \in OracleData : PipeOracle(1, data))

----------------------------------------------------------------------------
(* Overlapping pipeline runs: several server processes, each with its own   *)
(* scheduler, work on the same database.  Raw questions are stored and       *)
(* PENDING at start; nothing in the source keeps two runs apart.             *)

OverlapInit ==
    /\ \E k \in 1..MaxId : raw_questions = [n \in 1..k |-> "pending"]
    /\ representative_questions = <<>>
    /\ answers = <<>>
    /\ likes = EmptyBag
    /\ like_req = [h \in Handlers |-> IdleLike]
    /\ req = [h \in Handlers |-> IdleReq]
    /\ pipe = [r \in Runs |-> IdlePipe]
    /\ nreq = 0
    /\ last = NoResponse
    /\ hist = <<>>

OverlapNext ==
    \/ \E r \in Runs : PipeTick(r)
    \/ \E r \in Runs : PipeOracleFails(r)
    \/ \E r \in Runs, data \in OracleData : PipeOracle(r, data)
    \/ \E r \in Runs : PipeInsert(r)
    \/ \E r \in Runs : PipeUpdate(r)

SpecOverlap == OverlapInit /\ [][OverlapNext]_vars

----------------------------------------------------------------------------
(* The listing beside votes and answers: MaxId representative questions,   *)
(* made from one raw question by an earlier pipeline run, exist unanswered  *)
(* and without votes.                                                       *)

ListInit ==
    /\ raw_questions = <<"represented">>
    /\ representative_questions =
          [i \in 1..MaxId |-> [total_votes |-> 0, status |-> "unanswered",
                               raw_question_ids |-> <<StrId(1)>>]]
    /\ answers = <<>>
    /\ likes = EmptyBag
    /\ like_req = [h \in Handlers |-> IdleLike]
    /\ req = [h \in Handlers |-> IdleReq]
    /\ pipe = [r \in Runs |-> IdlePipe]
    /\ nreq = 0
    /\ last = NoResponse
    /\ hist = <<>>

ListNext ==
    \/ \E h \in Handlers, op \in {"like", "unlike"}, s \in Sessions, n \in 1..MaxId :
          StartLike(h, op, s, "question", StrId(n))
    \/ \E h \in Handlers : Check1(h)
    \/ \E h \in Handlers : Check2(h)
    \/ \E h \in Handlers : Check3(h)
    \/ \E h \in Handlers : CreateLike(h)
    \/ \E h \in Handlers : IncrementVotes(h)
    \/ \E h \in Handlers : Remove1(h)
    \/ \E h \in Handlers : Remove2(h)
    \/ \E h \in Handlers : Remove3(h)
    \/ \E h \in Handlers : DecrementVotes(h)
    \/ \E h \in Handlers, n \in 1..MaxId : nreq < MaxRequests /\ StartAnswer(h, Oid(n))
    \/ \E h \in Handlers : CheckAnswer(h)
    \/ \E h \in Handlers : InsertAnswer(h)
    \/ \E h \in Handlers : UpdateRep(h)
    \/ \E h \in Handlers : FindRep(h)
    \/ \E h \in Handlers : FindRaw1(h)
    \/ \E h \in Handlers : FindRaw2(h)
    \/ \E h \in Handlers : FindRaw3(h)
    \/ \E h \in Handlers : UpdateRaw(h)
    \/ \E skip \in 0..1, limit \in 1..MaxId : get_representative_questions(skip, limit)

SpecList == ListInit /\ [][ListNext]_vars

----------------------------------------------------------------------------
(* Every writer of raw_questions, with a client that puts PENDING or       *)
(* REJECTED in the body of its submission: forced submissions, one          *)
(* scheduler's pipeline runs and create-answer requests, from empty         *)
(* collections.                                                             *)

StatusNext ==
    \/ \E h \in Handlers, status \in {"pending", "rejected"} :
          nreq < MaxSubmits /\ StartSubmit(h, TRUE, status)
    \/ \E h \in Handlers, reply \in ValidatorReplies : Validate(h, reply)
    \/ \E h \in Handlers : CreateRaw(h)
    \/ \E h \in Handlers, n \in 1..MaxId : StartAnswer(h, Oid(n))
    \/ \E h \in Handlers : CheckAnswer(h)
    \/ \E h \in Handlers : InsertAnswer(h)
    \/ \E h \in Handlers : UpdateRep(h)
    \/ \E h \in Handlers : FindRep(h)
    \/ \E h \in Handlers : FindRaw1(h)
    \/ \E h \in Handlers : FindRaw2(h)
    \/ \E h \in Handlers : FindRaw3(h)
    \/ \E h \in Handlers : UpdateRaw(h)
    \/ PipeStart(1)
    \/ PipeOracleFails(1)
    \/ \E data \in OracleData : PipeOracle(1, data)
    \/ PipeInsert(1)
    \/ PipeUpdate(1)

SpecStatus == Init /\ [][StatusNext]_vars

----------------------------------------------------------------------------
(* The pipeline on a database whose bulk update can fail: one scheduler,    *)
(* raw questions stored and PENDING at start, up to MaxRuns runs.           *)

StorageNext ==
    \/ nreq < MaxRuns /\ PipeStart(1)
    \/ PipeOracleFails(1)
    \/ \E data \in OracleData : PipeOracle(1, data)
    \/ PipeInsert(1)
    \/ PipeUpdate(1)
    \/ PipeUpdateFails(1)

SpecStorage == OverlapInit /\ [][StorageNext]_vars

----------------------------------------------------------------------------
(* Properties of the voting subsystem *)

ExistingTargets ==
    {<<"question", Oid(n)>> : n \in 1..Len(representative_questions)}
        \cup {<<"answer", Oid(n)>> : n \in 1..Len(answers)}

Quiescent == \A h \in Handlers : like_req[h].op = "idle"

\* C1: in every reachable state the total_votes of every representative question
\* and answer equals the number of Like documents that reference it.
C1_VotesEqualLikes ==
    \A t \in ExistingTargets : TargetVotes(t[1], t[2]) = LikeCount(t[1], t[2])

\* C2: at most one Like document exists per (session_id, target_id, target_type),
\* also when two like requests of one session for one target run concurrently.
C2_AtMostOneLike ==
    \A s \in Sessions : \A t \in ExistingTargets : SessionLikes(s, t[1], t[2]) <= 1

\* C3: once no like/unlike request is in flight, total_votes of every target equals
\* the number of Like documents stored for it.
C3_QuiescentVotesEqualLikes ==
    Quiescent =>
        \A t \in ExistingTargets : TargetVotes(t[1], t[2]) = LikeCount(t[1], t[2])

SameTarget(a, b) ==
    /\ a.session_id = b.session_id
    /\ a.target_id = b.target_id
    /\ a.target_type = b.target_type

\* The last two requests ran one after the other, alone, and nothing runs now.
SequentialPair(op1, op2) ==
    /\ Quiescent
    /\ Len(hist) = 2
    /\ hist[1].op = op1 /\ hist[2].op = op2
    /\ SameTarget(hist[1], hist[2])
    /\ hist[1].likes_before = 0

\* C7: like(S,T) twice in a row, from a state with no Like for (S,T): the first is
\* accepted, the second rejected, total_votes(T) grew by exactly 1 and exactly one
\* Like for (S,T) exists.
C7_LikeTwice ==
    SequentialPair("like", "like") =>
        /\ hist[1].result = "accepted"
        /\ hist[2].result = "rejected"
        /\ TargetVotes(hist[1].target_type, hist[1].target_id) = hist[1].votes_before + 1
        /\ SessionLikes(hist[1].session_id, hist[1].target_type, hist[1].target_id) = 1

\* C7 witness: a sequential like/like pair has completed, after other sessions voted.
C7_Witness ==
    /\ SequentialPair("like", "like")
    /\ hist[1].votes_before > 0

C9_RejectionNoMutation ==
    (last.op \in {"like", "unlike"} /\ last.result = "rejected") => ~last.wrote

----------------------------------------------------------------------------
(* Properties of the question lifecycle *)

\* C4: the status of a raw question never moves backward: an ANSWERED question
\* stays ANSWERED and a REPRESENTED question never returns to PENDING.
C4_StatusMonotonic ==
    [][\A n \in 1..Len(raw_questions) :
          /\ raw_questions[n] = "answered" => raw_questions'[n] = "answered"
          /\ raw_questions[n] = "represented" => raw_questions'[n] # "pending"]_vars

AnswersFor(id) == {i \in 1..Len(answers) : answers[i].representative_question_id = id}

\* C5: at most one Answer exists per representative question, also when two
\* create-answer requests for one question run concurrently.
C5_AtMostOneAnswer ==
    \A n \in 1..Len(representative_questions) : Cardinality(AnswersFor(Oid(n))) <= 1

\* C10: a submission whose validation reply begins with the "unacceptable" token
\* never goes on to the similarity stage or the insert: it ends with the error
\* result, having written nothing.
C10_UnacceptableNeverStored ==
    /\ \A h \in Handlers : req[h].op = "submit" => ~req[h].unacceptable
    /\ (last.op = "submit" /\ last.unacceptable) =>
           (last.result = "invalid_question" /\ ~last.wrote)

\* C10 witness: a submission was rejected by the validation stage while another
\* question had already been stored.
C10_Witness ==
    /\ last.op = "submit" /\ last.unacceptable /\ last.result = "invalid_question"
    /\ Len(raw_questions) >= 1

----------------------------------------------------------------------------
(* Properties of the submission flow *)

\* A submission that has passed the validation stage
Validated(h) == req[h].op = "submit" /\ req[h].pc # "validate"

\* C11: a submission with force = false that passed validation ends either with
\* duplicate-found, naming an existing representative question and storing nothing,
\* or with new-question-persisted, one raw question stored; never otherwise.
C11_SubmissionOutcomes ==
    [][\A h \in Handlers :
          (Validated(h) /\ ~req[h].force /\ req'[h].op = "idle") =>
              /\ last'.op = "submit"
              /\ \/ /\ last'.result = "similar_question_found"
                    /\ last'.similar \in 1..Len(representative_questions)
                    /\ raw_questions' = raw_questions
                 \/ /\ last'.result = "new_question_submitted"
                    /\ last'.similar = 0
                    /\ Len(raw_questions') = Len(raw_questions) + 1]_vars

\* C11 witness: a submission ended with duplicate-found after another one had been
\* persisted.
C11_Witness ==
    /\ last.op = "submit" /\ last.result = "similar_question_found"
    /\ Len(raw_questions) >= 2

\* C12: when a submission is not forced and the similarity stage returns a
\* representative question, the request ends there with duplicate-found, having
\* stored no raw question and changed no collection.
C12_DuplicateStoresNothing ==
    [][\A h \in Handlers : \A reply \in SimilarityReplies :
          (/\ req[h].pc = "similar_oracle" /\ ~req[h].force
           /\ req'[h] # req[h]
           /\ find_most_similar_question(1..req[h].candidates, reply) # 0
           /\ SimilarOracle(h, reply)) =>
              /\ req'[h].op = "idle"
              /\ last'.op = "submit" /\ last'.result = "similar_question_found"
              /\ ~last'.wrote
              /\ UNCHANGED <<raw_questions, representative_questions, answers, likes>>]_vars

\* C12 witness: a submission ended with duplicate-found while representative
\* questions and raw questions are stored.
C12_Witness ==
    /\ last.op = "submit" /\ last.result = "similar_question_found" /\ last.similar >= 1
    /\ ~last.wrote
    /\ Len(representative_questions) >= 1

\* C13: a forced submission that validation accepts goes straight to the insert:
\* it is never at the candidate fetch nor at the similarity oracle call, and its
\* next step stores one new raw question, whatever representative questions exist.
C13_ForceSkipsSimilarity ==
    [][\A h \in Handlers :
          (req[h].op = "submit" /\ req[h].force /\ req'[h] # req[h]) =>
              \/ /\ req[h].pc = "validate"
                 /\ \/ req'[h].pc = "create"
                    \/ req'[h].op = "idle" /\ last'.result = "invalid_question"
              \/ /\ req[h].pc = "create"
                 /\ req'[h].op = "idle"
                 /\ last'.result = "new_question_submitted" /\ last'.similar = 0
                 /\ Len(raw_questions') = Len(raw_questions) + 1]_vars

\* C13 witness: a forced submission has passed validation and is at the insert
\* while representative questions exist.
C13_Witness ==
    \E h \in Handlers :
        /\ req[h].op = "submit" /\ req[h].force /\ req[h].pc = "create"
        /\ Len(representative_questions) >= 1
        /\ Len(raw_questions) >= 2

\* The oracle answered and its reply, trimmed, begins with the token
BeginsWith(reply, token) == reply # OracleError /\ startswith(strip(reply), token)

\* C14: the validation stage fails open: a submission is rejected exactly when the
\* oracle's reply begins with the "unacceptable" token; when the oracle call raised
\* or the reply begins with neither token the submission is accepted and goes on.
C14_ValidationFailsOpen ==
    [][\A h \in Handlers : \A reply \in ValidatorReplies :
          (req[h].pc = "validate" /\ req'[h] # req[h] /\ Validate(h, reply)) =>
              /\ BeginsWith(reply, Unacceptable) <=>
                     (req'[h].op = "idle" /\ last'.result = "invalid_question")
              /\ ~BeginsWith(reply, Unacceptable) =>
                     (req'[h].op = "submit" /\ req'[h].pc \in {"create", "similar_fetch"})
              /\ (reply = OracleError) => req'[h].reason = "error"
              /\ (reply # OracleError /\ ~BeginsWith(reply, Unacceptable)
                     /\ ~BeginsWith(reply, Acceptable)) => req'[h].reason = "undecided"]_vars

\* C14 witness: a submission went on after the oracle call of its validation raised,
\* and another after a reply with neither token.
C14_Witness ==
    /\ \E h \in Handlers : Validated(h) /\ req[h].reason = "error"
    /\ \E h \in Handlers : Validated(h) /\ req[h].reason = "undecided"

\* C15: every raw question the submission flow stores is stored with status
\* PENDING, whatever status the request body carried.
C15_StoredPending ==
    [][Len(raw_questions') > Len(raw_questions) =>
          /\ Len(raw_questions') = Len(raw_questions) + 1
          /\ raw_questions'[Len(raw_questions')] = "pending"
          /\ SubSeq(raw_questions', 1, Len(raw_questions)) = raw_questions]_vars

\* C15 witness: a submission whose body said ANSWERED has been stored, as PENDING.
C15_Witness ==
    /\ last.op = "submit" /\ last.result = "new_question_submitted"
    /\ last.status = "answered"
    /\ raw_questions[Len(raw_questions)] = "pending"

\* The candidates whose id, as text, is the oracle's trimmed reply
Named(candidates, reply) == {n \in candidates : hex(Oid(n)) = strip(reply)}

\* C16: the similarity stage returns None when the oracle call failed, the reply is
\* empty or the "none" sentinel, or the reply names no fetched candidate; otherwise
\* it returns the fetched candidate whose id equals the reply.
C16_SimilarityResult ==
    [][\A h \in Handlers : \A reply \in SimilarityReplies :
          (req[h].pc = "similar_oracle" /\ req'[h] # req[h] /\ SimilarOracle(h, reply)) =>
              LET candidates == 1..req[h].candidates
                  none == \/ reply = OracleError
                          \/ strip(reply) = <<>>
                          \/ lower(strip(reply)) = None
                          \/ Named(candidates, reply) = {}
              IN IF none
                 THEN req'[h].op = "submit" /\ req'[h].pc = "create" /\ last' = last
                 ELSE /\ req'[h].op = "idle"
                      /\ last'.result = "similar_question_found"
                      /\ last'.similar \in Named(candidates, reply)]_vars

\* C16 witness: one submission got a candidate back, and another, with candidates
\* fetched, got None and is at the insert.
C16_Witness ==
    /\ last.result = "similar_question_found"
    /\ last.similar \in 1..Len(representative_questions)
    /\ \E h \in Handlers :
          req[h].op = "submit" /\ ~req[h].force /\ req[h].pc = "create"

\* C17: when no representative question exists the similarity stage returns None
\* at the candidate fetch, without an oracle call: the submission goes to the
\* insert, and a submission at the oracle call always has candidates.
C17_NoCandidatesNoOracle ==
    [][\A h \in Handlers :
          (req[h].pc = "similar_fetch" /\ req'[h] # req[h]) =>
              /\ representative_questions = <<>> =>
                     (req'[h].op = "submit" /\ req'[h].pc = "create")
              /\ req'[h].pc = "similar_oracle" => req'[h].candidates >= 1]_vars

\* C17 witness: with no representative question stored, a submission that is not
\* forced has passed the similarity stage and is at the insert.
C17_Witness ==
    /\ representative_questions = <<>>
    /\ \E h \in Handlers :
          req[h].op = "submit" /\ ~req[h].force /\ req[h].pc = "create"

----------------------------------------------------------------------------
(* Properties of the clustering pipeline *)

\* The step that ends pipeline run r with the given outcome
RunEnds(r, outcome) ==
    pipe[r].pc # "idle" /\ pipe'[r].pc = "idle" /\ pipe'[r].outcome = outcome

\* The insert_many step of run r
RunInserts(r) == pipe[r].pc = "insert" /\ pipe'[r].pc = "update"

\* C18: a run whose oracle call raised, or whose reply is no JSON, ends having
\* inserted no representative question and changed no raw question's status: what
\* it fetched is as it was (PENDING, unless a handler running beside the run has
\* changed it in the meantime).
C18_PipelineFailsClosed ==
    [][\A r \in Runs :
          RunEnds(r, "failed") =>
             /\ pipe[r].pc = "oracle"
             /\ representative_questions' = representative_questions
             /\ raw_questions' = raw_questions]_vars

\* C18 witness: a run has failed and the question it fetched is still PENDING, no
\* representative question stored.
C18_Witness ==
    /\ pipe[1].pc = "idle" /\ pipe[1].outcome = "failed"
    /\ representative_questions = <<>>
    /\ \E n \in 1..Len(raw_questions) : raw_questions[n] = "pending"

\* C19: a run whose oracle reply parses ends with every question it fetched
\* REPRESENTED, whatever the number of groups the reply holds, zero included.
C19_ParsedRunRepresentsBatch ==
    [][\A r \in Runs :
          (RunEnds(r, "saved") \/ RunEnds(r, "no_groups")) =>
             \A n \in pipe[r].pending_questions : raw_questions'[n] = "represented"]_vars

\* C20: the insert of a run whose reply parsed appends exactly one representative
\* question per group of the reply, in the reply's order, each with total_votes 0,
\* status "unanswered" and, as raw_question_ids, the group's related_question_ids
\* without the invalid ones, order kept; a group with an invalid id is inserted
\* like any other.
C20_OneRepPerGroup ==
    [][\A r \in Runs :
       RunInserts(r) =>
          LET data == pipe[r].representative_questions_data
              before == Len(representative_questions)
          IN /\ Len(representative_questions') = before + Len(data)
             /\ SubSeq(representative_questions', 1, before) = representative_questions
             /\ \A i \in 1..Len(data) :
                   LET doc == representative_questions'[before + i]
                   IN /\ doc.total_votes = 0
                      /\ doc.status = "unanswered"
                      /\ doc.raw_question_ids = SelectSeq(data[i], ObjectIdIsValid)]_vars

\* C20 witness: a run has inserted the representative question of a group that
\* lists an invalid id beside a valid one; the stored list holds the valid id alone.
C20_Witness ==
    /\ pipe[1].pc = "update"
    /\ \E i \in 1..Len(pipe[1].representative_questions_data) :
          LET group == pipe[1].representative_questions_data[i]
              k == Len(representative_questions)
                       - Len(pipe[1].representative_questions_data) + i
          IN /\ \E j \in 1..Len(group) : ~ObjectIdIsValid(group[j])
             /\ \E j \in 1..Len(group) : ObjectIdIsValid(group[j])
             /\ k >= 1
             /\ Len(representative_questions[k].raw_question_ids) = 1

\* C21: every id in the raw_question_ids of a representative question refers to a
\* raw question of the PENDING batch of the run that inserted it, whatever ids the
\* oracle's reply lists.  The ids never change after the insert, so the statement
\* is made on the insert.
C21_IdsFromBatch ==
    [][\A r \in Runs :
       RunInserts(r) =>
          \A k \in (Len(representative_questions) + 1)..Len(representative_questions') :
             LET ids == representative_questions'[k].raw_question_ids
             IN \A j \in 1..Len(ids) : ids[j].n \in pipe[r].pending_questions]_vars

\* C22: under a scheduler that keeps firing and an oracle whose reply parses
\* infinitely often, a raw question that is PENDING is eventually REPRESENTED.
C22_PendingEventuallyRepresented ==
    \A n \in 1..MaxSubmits :
       (n <= Len(raw_questions) /\ raw_questions[n] = "pending")
          ~> (n <= Len(raw_questions) /\ raw_questions[n] = "represented")

\* C25: no raw question is in the batch of two runs that insert representative
\* questions.  A run that has inserted is at its update, its batch at hand, or has
\* ended and left its batch REPRESENTED; so the statement is that a run which
\* inserts finds every question of its batch still PENDING and in the batch of no
\* other run that has inserted.
C25_BatchProcessedOnce ==
    [][\A r \in Runs :
          RunInserts(r) =>
             \A n \in pipe[r].pending_questions :
                /\ raw_questions[n] = "pending"
                /\ \A o \in Runs \ {r} :
                      pipe[o].pc = "update" => n \notin pipe[o].pending_questions]_vars

\* C26: a run whose bulk status update raises a storage error, after its insert,
\* ends by raising to the scheduler, and does not end with the representative
\* questions it inserted stored while a question of its batch is still PENDING.
C26_UpdateErrorSurfaced ==
    [][\A r \in Runs :
          RunEnds(r, "storage_error") =>
             /\ pipe'[r].raised
             /\ ~(/\ Len(pipe[r].representative_questions_data) > 0
                   /\ Len(representative_questions')
                         >= Len(pipe[r].representative_questions_data)
                   /\ \E n \in pipe[r].pending_questions :
                         raw_questions'[n] = "pending")]_vars

----------------------------------------------------------------------------
(* Properties of answer resolution *)

\* The step by which handler h completes a create-answer request with the result
AnswerEnds(h, result) ==
    /\ req[h].op = "answer"
    /\ req'[h].op = "idle"
    /\ last'.op = "answer" /\ last'.result = result

\* The raw questions that exist and whose id is listed in ids, in either form
ListedRaw(ids, raw) == {n \in 1..Len(raw) : \E j \in 1..Len(ids) : ids[j].n = n}

C24_AnswerRejection ==
    [][\A h \in Handlers :
          /\ \A n \in 1..MaxId :
                (StartAnswer(h, Oid(n)) /\ ~RepExists(Oid(n))) =>
                   /\ last'.op = "answer" /\ last'.result = "not_found"
                   /\ ~last'.wrote
                   /\ UNCHANGED <<answers, representative_questions, raw_questions, req>>
          /\ (req[h].pc = "check_answer" /\ req'[h] # req[h]
                 /\ get_answer_for_question(req[h].rq_id)) =>
                   /\ last'.op = "answer" /\ last'.result = "answer_exists"
                   /\ ~last'.wrote
                   /\ req'[h].op = "idle"
                   /\ UNCHANGED <<answers, representative_questions, raw_questions>>
          /\ (AnswerEnds(h, "not_found") \/ AnswerEnds(h, "answer_exists")) =>
                   /\ ~req[h].wrote
                   /\ UNCHANGED <<answers, representative_questions, raw_questions>>]_vars

\* C24 witness: a create-answer request has just been rejected because the
\* representative question, which exists, already has an answer.
C24_Witness ==
    /\ last.op = "answer" /\ last.result = "answer_exists" /\ ~last.wrote
    /\ \E Q \in 1..Len(representative_questions) : get_answer_for_question(Oid(Q))

----------------------------------------------------------------------------
(* Properties of the listing *)

----------------------------------------------------------------------------
(* Invariants of the lifecycle *)

\* C28: in every state, those between the steps of a create-answer request and of
\* concurrent requests included, a representative question whose status is
\* answered has an answer stored for it.
C28_AnsweredHasAnswer ==
    \A Q \in 1..Len(representative_questions) :
       representative_questions[Q].status = "answered" => get_answer_for_question(Oid(Q))

\* C28 witness: a create-answer request is between its status update and its
\* cascade; the question is answered and its answer is stored.
C28_Witness ==
    \E h \in Handlers :
       /\ req[h].op = "answer" /\ req[h].pc = "find_rep"
       /\ representative_questions[req[h].rq_id.n].status = "answered"
       /\ get_answer_for_question(req[h].rq_id)

\* C29: in every state, a raw question that is ANSWERED is listed in the
\* raw_question_ids of a representative question that has an answer.
C29_AnsweredRawHasAnsweredRep ==
    \A n \in 1..Len(raw_questions) :
       raw_questions[n] = "answered" =>
          \E Q \in 1..Len(representative_questions) :
             /\ n \in ListedRaw(representative_questions[Q].raw_question_ids,
                                 raw_questions)
             /\ get_answer_for_question(Oid(Q))

\* C29 witness: a raw question is ANSWERED while the pipeline has marked another
\* REPRESENTED.
C29_Witness ==
    /\ \E n \in 1..Len(raw_questions) : raw_questions[n] = "answered"
    /\ \E n \in 1..Len(raw_questions) : raw_questions[n] = "represented"

\* C30: no stored raw question ever has status REJECTED, whatever status the
\* client put in its submission; and a submission the validator rejects stores none.
C30_NeverRejected ==
    [][/\ \A n \in 1..Len(raw_questions') : raw_questions'[n] # "rejected"
       /\ \A h \in Handlers :
             (req[h].pc = "validate" /\ req'[h].op = "idle") =>
                /\ last'.result = "invalid_question"
                /\ raw_questions' = raw_questions]_vars

\* C30 witness: the submission stored last had REJECTED in its body and is stored
\* PENDING, beside questions the pipeline and the answer cascade have written.
C30_Witness ==
    /\ last.op = "submit" /\ last.result = "new_question_submitted"
    /\ last.status = "rejected"
    /\ Len(raw_questions) >= 2
    /\ raw_questions[Len(raw_questions)] = "pending"
    /\ raw_questions[1] \in {"represented", "answered"}

====
